---- MODULE Spec2Model ----
(***************************************************************************)
(* Number-theoretic primitives of the metcs789 project: extended Euclid,   *)
(* modular inverse, square-and-multiply, RSA-CRT decryption, ElGamal,      *)
(* Miller-Rabin and the Blum-Blum-Shub generator.                          *)
(***************************************************************************)
EXTENDS Integers, Sequences, FiniteSets, TLC

VARIABLES
    ar,     \* last call of a pure function of rsa_operations.py and its outcome
    eg,     \* ElGamal session: keys, message, ciphertext, decryption
    mr,     \* one run of miller_rabin: n, d, r, rounds done, verdict
    bbs,    \* the BlumBlumShub instance: bits, p, q, n, seed
    pc,     \* where the instance's constructor or caller stands
    gbp,    \* last return of generate_blum_prime: bit_length, value
    log,    \* the consecutive blum_blum_shub calls made since the last prime extraction
    rp,     \* random_prime_from_bbs in progress: bit_length, bits, value
    err,    \* the exception blum_blum_shub raised, if any
    rsa,    \* a session of rsa_b.py and rsa_a.py: keys, message, ciphertext, decryption
    user,   \* the User object of send.py: p, q, e and the last reading of d
    enc,    \* last string conversion: code points, bytes, integer, decoded string
    pr,     \* last call of factor_pollard_p1: n, B, the gcds computed, the return
    callers \* two callers of blum_blum_shub on the one instance: what each read and wrote

vars == <<ar, eg, mr, bbs, pc, gbp, log, rp, err, rsa, user, enc, pr, callers>>

----------------------------------------------------------------------------
(* Bounds of the model *)

MaxArg == 7          \* extended_gcd / mod_inverse arguments range over -MaxArg..MaxArg
MaxBase == 4         \* mod_pow bases range over -MaxBase..MaxBase
MaxExp == 5          \* mod_pow exponents range over 0..MaxExp
MaxMod == 6          \* mod_pow moduli range over 1..MaxMod
MaxRsaPrime == 7     \* RSA p, q range over 2..MaxRsaPrime
MaxRsaE == 7         \* RSA public exponents range over 1..MaxRsaE
MaxRsaMsg == 48      \* RSA messages of the round trip range over 0..MaxRsaMsg
MaxTyped == 3        \* messages and ciphertexts entered range over -1..MaxTyped and n-1..n+1
MaxPubN == 10        \* the modulus A enters ranges over 1..MaxPubN
MaxStrLen == 3       \* strings have up to MaxStrLen code points
MaxDecodeInt == 300  \* integers decoded without an encoding range over 0..MaxDecodeInt
MaxPollardN == 100   \* factor_pollard_p1 moduli range over 2..MaxPollardN, and 8051
MaxPollardB == 10    \* factor_pollard_p1 bounds range over -1..MaxPollardB
MaxEgP == 6          \* ElGamal p, g, m range over 0..MaxEgP
MaxMrN == 41         \* miller_rabin is called on -2..MaxMrN
MinBitSize == 2      \* BlumBlumShub(int_size_bits) for MinBitSize..MaxBitSize
MaxBitSize == 9
MaxIter == 3         \* blum_blum_shub(iterations) for 0..MaxIter
MaxPrimeBits == 7    \* random_prime_from_bbs(bit_length) for 1..MaxPrimeBits

----------------------------------------------------------------------------
(* Python integer arithmetic *)

\* a // b : floor division, any non-zero b
PyFloorDiv(a, b) == a \div b

\* a % b : the remainder has the sign of b
PyMod(a, b) == a - b * (a \div b)

Abs(a) == IF a < 0 THEN -a ELSE a

\* reference definitions the claims are stated against
CommonDivisor(d, a, b) == PyMod(a, d) = 0 /\ PyMod(b, d) = 0

Gcd(a, b) ==
    IF a = 0 /\ b = 0 THEN 0
    ELSE CHOOSE d \in 1..(Abs(a) + Abs(b)) :
            /\ CommonDivisor(d, a, b)
            /\ \A c \in (d + 1)..(Abs(a) + Abs(b)) : ~CommonDivisor(c, a, b)

\* base^exponent over the integers, with 0^0 = 1
RECURSIVE Power(_, _)
Power(base, exponent) == IF exponent = 0 THEN 1 ELSE base * Power(base, exponent - 1)

Coprime(a, b) ==
    /\ ~(a = 0 /\ b = 0)
    /\ \A c \in 2..(Abs(a) + Abs(b)) : ~CommonDivisor(c, a, b)

\* (a * b) mod m without forming a * b
RECURSIVE MulMod(_, _, _)
MulMod(a, b, m) ==
    IF b = 0 THEN 0
    ELSE PyMod(2 * MulMod(a, PyFloorDiv(b, 2), m) + PyMod(b, 2) * PyMod(a, m), m)

RECURSIVE Factorial(_)
Factorial(j) == IF j <= 1 THEN 1 ELSE j * Factorial(j - 1)

\* every prime factor of m is at most B
Smooth(m, B) ==
    \A r \in 2..m : (PyMod(m, r) = 0 /\ \A c \in 2..(r - 1) : PyMod(r, c) # 0) => r <= B

\* the big-endian number of the bytes b, summed over b[1..i]
RECURSIVE BigEndian(_, _)
BigEndian(b, i) ==
    IF i = 0 THEN 0 ELSE b[i] * Power(256, Len(b) - i) + BigEndian(b, i - 1)

\* bit i of a non-negative integer
Bit(v, i) == PyMod(PyFloorDiv(v, 2 ^ i), 2)

IsPrime(n) == n >= 2 /\ \A c \in 2..(n - 1) : PyMod(n, c) # 0

----------------------------------------------------------------------------
(* rsa_operations.py *)

RECURSIVE extended_gcd(_, _)
extended_gcd(a, b) ==
    IF b = 0 THEN <<a, 1, 0>>
    ELSE LET rec == extended_gcd(b, PyMod(a, b))
             g == rec[1]
             x1 == rec[2]
             y1 == rec[3]
         IN <<g, y1, x1 - PyFloorDiv(a, b) * y1>>

\* a result is either a value or a raised ValueError
Value(v) == [ok |-> TRUE, val |-> v]
Raised == [ok |-> FALSE, val |-> 0]

\* mod_inverse returning x as extended_gcd gave it, not reduced mod m
mod_inverse_unreduced(a, m) ==
    LET rec == extended_gcd(PyMod(a, m), m)
    IN IF rec[1] # 1 THEN Raised ELSE Value(rec[2])

mod_inverse(a, m) ==
    LET rec == extended_gcd(PyMod(a, m), m)
    IN IF rec[1] # 1 THEN Raised ELSE Value(PyMod(rec[2], m))

RECURSIVE mod_pow_loop(_, _, _, _)
mod_pow_loop(result, base, exponent, modulus) ==
    IF exponent > 0
    THEN mod_pow_loop(IF PyMod(exponent, 2) = 1
                      THEN PyMod(result * base, modulus) ELSE result,
                      PyMod(base * base, modulus),
                      PyFloorDiv(exponent, 2),
                      modulus)
    ELSE result

\* result started at 0 instead of 1
mod_pow_result_zero(base, exponent, modulus) ==
    mod_pow_loop(0, PyMod(base, modulus), exponent, modulus)

mod_pow(base, exponent, modulus) ==
    mod_pow_loop(1, PyMod(base, modulus), exponent, modulus)

rsa_decrypt_crt(ciphertext, d, p, q) ==
    LET n == p * q
        dp == PyMod(d, p - 1)
        dq == PyMod(d, q - 1)
        mp == mod_pow(ciphertext, dp, p)
        mq == mod_pow(ciphertext, dq, q)
        q_inv == mod_inverse(q, p)
    IN IF ~q_inv.ok THEN Raised
       ELSE LET h == PyMod(q_inv.val * (mp - mq), p)
                m == mq + h * q
            IN Value(PyMod(m, n))

----------------------------------------------------------------------------
(* The callers of the pure functions: each action is one call *)

NoCall == [op |-> "none"]

ArithInit == ar = NoCall

CallExtendedGcd ==
    /\ ar.op = "none"
    /\ \E a, b \in -MaxArg..MaxArg :
        ar' = [op |-> "extended_gcd", a |-> a, b |-> b, ret |-> extended_gcd(a, b)]
    /\ UNCHANGED <<eg, mr, bbs, pc, gbp, log, rp, err, rsa, user, enc, pr, callers>>

CallModInverse ==
    /\ ar.op = "none"
    /\ \E a \in -MaxArg..MaxArg, m \in 1..MaxArg :
        ar' = [op |-> "mod_inverse", a |-> a, m |-> m, ret |-> mod_inverse(a, m)]
    /\ UNCHANGED <<eg, mr, bbs, pc, gbp, log, rp, err, rsa, user, enc, pr, callers>>

CallModPow ==
    /\ ar.op = "none"
    /\ \E base \in -MaxBase..MaxBase, exponent \in 0..MaxExp, modulus \in 1..MaxMod :
        ar' = [op |-> "mod_pow", base |-> base, exponent |-> exponent,
               modulus |-> modulus, ret |-> mod_pow(base, exponent, modulus)]
    /\ UNCHANGED <<eg, mr, bbs, pc, gbp, log, rp, err, rsa, user, enc, pr, callers>>

\* the key set-up and the two decryptions of the __main__ block
CallRsaDecryptCrt ==
    /\ ar.op = "none"
    /\ \E p, q \in 2..MaxRsaPrime, e \in 1..MaxRsaE :
        LET n == p * q
            phi_n == (p - 1) * (q - 1)
            d == mod_inverse(e, phi_n)
        IN /\ d.ok
           /\ \E ciphertext \in 0..(n - 1) :
                ar' = [op |-> "rsa_decrypt_crt", p |-> p, q |-> q, e |-> e,
                       d |-> d.val, c |-> ciphertext,
                       decrypted_crt |-> rsa_decrypt_crt(ciphertext, d.val, p, q),
                       decrypted_normal |-> mod_pow(ciphertext, d.val, n)]
    /\ UNCHANGED <<eg, mr, bbs, pc, gbp, log, rp, err, rsa, user, enc, pr, callers>>

\* rsa_encryption_decryption: its own parameters (61, 53, 17, message 65)
\* and small ones in their place
RsaEncryptionDecryption ==
    /\ ar.op = "none"
    /\ \E par \in ((2..MaxRsaPrime) \X (2..MaxRsaPrime) \X (1..MaxRsaE) \X (0..MaxRsaMsg))
                    \cup {<<61, 53, 17, 65>>} :
        LET p == par[1]
            q == par[2]
            e == par[3]
            message == par[4]
            n == p * q
            phi_n == (p - 1) * (q - 1)
            d == mod_inverse(e, phi_n)
            encrypted == mod_pow(message, e, n)
        IN /\ d.ok
           /\ message < n
           /\ ar' = [op |-> "rsa_encryption_decryption", p |-> p, q |-> q, n |-> n,
                     phi_n |-> phi_n, e |-> e, d |-> d.val, message |-> message,
                     encrypted |-> encrypted,
                     decrypted |-> mod_pow(encrypted, d.val, n)]
    /\ UNCHANGED <<eg, mr, bbs, pc, gbp, log, rp, err, rsa, user, enc, pr, callers>>

\* the caller takes the result and is free to call again
ArithReturn ==
    /\ ar.op # "none"
    /\ ar' = NoCall
    /\ UNCHANGED <<eg, mr, bbs, pc, gbp, log, rp, err, rsa, user, enc, pr, callers>>

ArithNext ==
    \/ CallExtendedGcd
    \/ CallModInverse
    \/ CallModPow
    \/ CallRsaDecryptCrt
    \/ RsaEncryptionDecryption
    \/ ArithReturn

----------------------------------------------------------------------------
(* Python's built-in three-argument pow, for exponent >= 0 *)

RECURSIVE pow(_, _, _)
pow(base, exponent, modulus) ==
    IF exponent = 0 THEN PyMod(1, modulus)
    ELSE LET half == pow(base, PyFloorDiv(exponent, 2), modulus)
             square == PyMod(half * half, modulus)
         IN IF PyMod(exponent, 2) = 1 THEN PyMod(square * base, modulus) ELSE square

----------------------------------------------------------------------------
(* elgamal_sending_project.py *)

RECURSIVE egcd(_, _)
egcd(a, b) ==
    IF b = 0 THEN <<a, 1, 0>>
    ELSE LET rec == egcd(b, PyMod(a, b))
             g == rec[1]
             x1 == rec[2]
             y1 == rec[3]
         IN <<g, y1, x1 - PyFloorDiv(a, b) * y1>>

modinv(a, m) ==
    LET rec == egcd(PyMod(a, m), m)
    IN IF rec[1] # 1 THEN Raised ELSE Value(PyMod(rec[2], m))

\* the two checks at the head of elgamal_keygen
\* the generator test admitting g = 1
elgamal_keygen_raises_g1(p, g) == p <= 2 \/ ~(1 <= g /\ g < p)

elgamal_keygen_raises(p, g) == p <= 2 \/ ~(1 < g /\ g < p)

\* x is the value secrets.randbelow(p - 2) + 1 returned
elgamal_keygen(p, g, x) ==
    [pub |-> [p |-> p, g |-> g, y |-> pow(g, x, p)],
     priv |-> [p |-> p, g |-> g, x |-> x]]

elgamal_encrypt_raises(m, pub) == ~(0 < m /\ m < pub.p)

\* k is the value secrets.randbelow(pub.p - 2) + 1 returned
elgamal_encrypt(m, pub, k) ==
    LET c1 == pow(pub.g, k, pub.p)
        s == pow(pub.y, k, pub.p)
        c2 == PyMod(m * s, pub.p)
    IN <<c1, c2>>

\* elgamal_decrypt multiplying by s where it should multiply by its inverse
elgamal_decrypt_no_inverse(ciphertext, priv) ==
    LET c1 == ciphertext[1]
        c2 == ciphertext[2]
        p == priv.p
        s == pow(c1, priv.x, p)
        s_inv == modinv(s, p)
    IN IF ~s_inv.ok THEN Raised ELSE Value(PyMod(c2 * s, p))

elgamal_decrypt(ciphertext, priv) ==
    LET c1 == ciphertext[1]
        c2 == ciphertext[2]
        p == priv.p
        s == pow(c1, priv.x, p)
        s_inv == modinv(s, p)
    IN IF ~s_inv.ok THEN Raised ELSE Value(PyMod(c2 * s_inv.val, p))

(* elgamal_decrypt.py: the receiving side's own copies *)

RECURSIVE receiver_egcd(_, _)
receiver_egcd(a, b) ==
    IF b = 0 THEN <<a, 1, 0>>
    ELSE LET rec == receiver_egcd(b, PyMod(a, b))
             g == rec[1]
             x1 == rec[2]
             y1 == rec[3]
         IN <<g, y1, x1 - PyFloorDiv(a, b) * y1>>

receiver_modinv(a, m) ==
    LET rec == receiver_egcd(PyMod(a, m), m)
    IN IF rec[1] # 1 THEN Raised ELSE Value(PyMod(rec[2], m))

receiver_elgamal_decrypt(ciphertext, priv) ==
    LET c1 == ciphertext[1]
        c2 == ciphertext[2]
        p == priv.p
        s == pow(c1, priv.x, p)
        s_inv == receiver_modinv(s, p)
    IN IF ~s_inv.ok THEN Raised ELSE Value(PyMod(c2 * s_inv.val, p))

----------------------------------------------------------------------------
(* An ElGamal session: keygen, then encryptions and decryptions *)

NoKey == [p |-> 0, g |-> 0, y |-> 0]
NoPriv == [p |-> 0, g |-> 0, x |-> 0]

EgInit ==
    eg = [pc |-> "start", pub |-> NoKey, priv |-> NoPriv, kp |-> 0, kg |-> 0,
          m |-> 0, k |-> 0, ks |-> {}, reused |-> FALSE,
          ct |-> <<0, 0>>, dec |-> Raised, dec_r |-> Raised]

\* kp, kg are the arguments of the call; a later call would start over from
\* the same arguments, so a session holds one call that returns keys
Keygen ==
    /\ eg.pc \in {"start", "keygen_error"}
    /\ \E p, g \in 0..MaxEgP :
        IF elgamal_keygen_raises(p, g)
        THEN eg' = [pc |-> "keygen_error", pub |-> NoKey, priv |-> NoPriv,
                    kp |-> p, kg |-> g,
                    m |-> 0, k |-> 0, ks |-> {}, reused |-> FALSE,
                    ct |-> <<0, 0>>, dec |-> Raised, dec_r |-> Raised]
        ELSE \E x \in 1..(p - 2) :
                LET keys == elgamal_keygen(p, g, x)
                IN eg' = [pc |-> "keyed", pub |-> keys.pub, priv |-> keys.priv,
                          kp |-> p, kg |-> g,
                          m |-> 0, k |-> 0, ks |-> {}, reused |-> FALSE,
                          ct |-> <<0, 0>>, dec |-> Raised, dec_r |-> Raised]
    /\ UNCHANGED <<ar, mr, bbs, pc, gbp, log, rp, err, rsa, user, enc, pr, callers>>

\* ks holds the k of every earlier encryption under the present key;
\* reused tells whether the k of this call is among them
Encrypt ==
    /\ eg.pc \in {"keyed", "encrypted", "decrypted", "encrypt_error"}
    /\ \E m \in 0..MaxEgP :
        IF elgamal_encrypt_raises(m, eg.pub)
        THEN eg' = [eg EXCEPT !.pc = "encrypt_error", !.m = m, !.k = 0,
                              !.reused = FALSE,
                              !.ct = <<0, 0>>, !.dec = Raised, !.dec_r = Raised]
        ELSE \E k \in 1..(eg.pub.p - 2) :
                eg' = [eg EXCEPT !.pc = "encrypted", !.m = m, !.k = k,
                                 !.ks = @ \cup {k}, !.reused = (k \in eg.ks),
                                 !.ct = elgamal_encrypt(m, eg.pub, k),
                                 !.dec = Raised, !.dec_r = Raised]
    /\ UNCHANGED <<ar, mr, bbs, pc, gbp, log, rp, err, rsa, user, enc, pr, callers>>

Decrypt ==
    /\ eg.pc = "encrypted"
    /\ eg' = [eg EXCEPT !.pc = "decrypted",
                        !.dec = elgamal_decrypt(eg.ct, eg.priv),
                        !.dec_r = receiver_elgamal_decrypt(eg.ct, eg.priv)]
    /\ UNCHANGED <<ar, mr, bbs, pc, gbp, log, rp, err, rsa, user, enc, pr, callers>>

EgNext ==
    \/ Keygen
    \/ Encrypt
    \/ Decrypt

----------------------------------------------------------------------------
(* blum_blum_shub.py: Miller-Rabin *)

SMALL_PRIMES == {3, 5, 7, 11, 13, 17, 19, 23, 29, 31, 37, 41, 43, 47, 53, 59}

testIterations == 8

\* while d % 2 == 0: d //= 2; r += 1
RECURSIVE mr_decompose(_, _)
mr_decompose(d, r) ==
    IF PyMod(d, 2) = 0 THEN mr_decompose(PyFloorDiv(d, 2), r + 1) ELSE <<d, r>>

\* for _ in range(r - 1): x = pow(x, 2, n); break on n - 1; else: return False
RECURSIVE mr_square_loop(_, _, _)
mr_square_loop(x, n, left) ==
    IF left <= 0 THEN FALSE
    ELSE LET x2 == pow(x, 2, n)
         IN IF x2 = n - 1 THEN TRUE ELSE mr_square_loop(x2, n, left - 1)

\* a round that accepts x = 1 only and forgets x = n - 1
mr_round_no_minus_one(n, d, r, a) ==
    LET x == pow(a, d, n)
    IN IF x = 1 THEN TRUE ELSE mr_square_loop(x, n, r - 1)

\* one round with witness a: TRUE when the round passes
mr_round(n, d, r, a) ==
    LET x == pow(a, d, n)
    IN IF x = 1 \/ x = n - 1 THEN TRUE ELSE mr_square_loop(x, n, r - 1)

\* the verdict the four early returns give, or "rounds"
mr_early(n) ==
    IF n <= 1 THEN "False"
    ELSE IF n <= 3 THEN "True"
    ELSE IF PyMod(n, 2) = 0 THEN "False"
    ELSE IF PyMod(n, 3) = 0 THEN "False"
    ELSE "rounds"

MrIdle == [pc |-> "idle", n |-> 0, d |-> 0, r |-> 0, round |-> 0, a |-> 0, result |-> "none"]

MrInit == mr = MrIdle

MrCall ==
    /\ mr.pc \in {"idle", "returned"}
    /\ \E n \in -2..MaxMrN :
         IF mr_early(n) # "rounds"
         THEN mr' = [pc |-> "returned", n |-> n, d |-> 0, r |-> 0, round |-> 0,
                     a |-> 0, result |-> mr_early(n)]
         ELSE LET dr == mr_decompose(n - 1, 0)
              IN mr' = [pc |-> "rounds", n |-> n, d |-> dr[1], r |-> dr[2],
                        round |-> 0, a |-> 0, result |-> "none"]
    /\ UNCHANGED <<ar, eg, bbs, pc, gbp, log, rp, err, rsa, user, enc, pr, callers>>

\* one pass of the for loop, a = random.randint(2, n - 2)
MrRound ==
    /\ mr.pc = "rounds"
    /\ \E a \in 2..(mr.n - 2) :
         IF ~mr_round(mr.n, mr.d, mr.r, a)
         THEN mr' = [mr EXCEPT !.pc = "returned", !.a = a, !.result = "False"]
         ELSE IF mr.round + 1 = testIterations
         THEN mr' = [mr EXCEPT !.pc = "returned", !.a = a, !.round = @ + 1,
                               !.result = "True"]
         ELSE mr' = [mr EXCEPT !.a = a, !.round = @ + 1]
    /\ UNCHANGED <<ar, eg, bbs, pc, gbp, log, rp, err, rsa, user, enc, pr, callers>>

MrNext ==
    \/ MrCall
    \/ MrRound

\* the verdicts a whole call of miller_rabin(n) can return, over all draws of
\* its witnesses: every round may draw the same a
miller_rabin(n) ==
    IF mr_early(n) # "rounds" THEN {mr_early(n) = "True"}
    ELSE LET dr == mr_decompose(n - 1, 0)
         IN {mr_round(n, dr[1], dr[2], a) : a \in 2..(n - 2)}

----------------------------------------------------------------------------
(* blum_blum_shub.py: the generator *)

RECURSIVE BitOr(_, _)
BitOr(a, b) ==
    IF a = 0 THEN b
    ELSE IF b = 0 THEN a
    ELSE (IF PyMod(a, 2) = 1 \/ PyMod(b, 2) = 1 THEN 1 ELSE 0)
         + 2 * BitOr(PyFloorDiv(a, 2), PyFloorDiv(b, 2))

\* int.bit_length()
RECURSIVE BitLength(_)
BitLength(v) == IF v = 0 THEN 0 ELSE 1 + BitLength(PyFloorDiv(v, 2))

\* math.gcd
RECURSIVE math_gcd(_, _)
math_gcd(a, b) == IF b = 0 THEN Abs(a) ELSE math_gcd(b, PyMod(a, b))

\* the candidate one pass of generate_blum_prime builds from the drawn bits
blum_candidate(rnd, bit_length) ==
    BitOr(BitOr(rnd, 2 ^ (bit_length - 1)), 3)

\* the values one pass of generate_blum_prime can return: a candidate that
\* is 3 mod 4 and that miller_rabin accepts
generate_blum_prime(bit_length) ==
    {c \in {blum_candidate(rnd, bit_length) : rnd \in 0..(2 ^ bit_length - 1)} :
        PyMod(c, 4) = 3 /\ TRUE \in miller_rabin(c)}

\* the for loop of blum_blum_shub
RECURSIVE bbs_loop(_, _, _, _)
bbs_loop(x, n, left, b) ==
    IF left = 0 THEN [x |-> x, b |-> b]
    ELSE LET x2 == pow(x, 2, n)
         IN bbs_loop(x2, n, left - 1, Append(b, PyMod(x2, 2)))

blum_blum_shub(self, iterations) ==
    LET p == self.p
        q == self.q
        seed == self.seed
        n == p * q
    IN IF PyMod(p, 4) # 3 \/ PyMod(q, 4) # 3
       THEN [err |-> "AssertionError", b |-> <<>>, seed |-> seed]
       ELSE IF math_gcd(seed, n) # 1
       THEN [err |-> "ValueError", b |-> <<>>, seed |-> seed]
       ELSE LET run == bbs_loop(pow(seed, 2, n), n, iterations, <<>>)
            IN [err |-> "none", b |-> run.b, seed |-> run.x]

\* for i in range(bit_length - 1): value |= (bits[i] << i)
RECURSIVE rp_fill(_, _, _, _)
rp_fill(value, bits, i, bit_length) ==
    IF i >= bit_length - 1 THEN value
    ELSE rp_fill(BitOr(value, bits[i + 1] * 2 ^ i), bits, i + 1, bit_length)

\* the integer one pass of random_prime_from_bbs assembles
rp_value(bits, bit_length) ==
    BitOr(rp_fill(2 ^ (bit_length - 1), bits, 0, bit_length), 1)

\* a filter that lets a member of SMALL_PRIMES itself through
rp_filtered_proper_multiples(value) ==
    \E sp \in SMALL_PRIMES : PyMod(value, sp) = 0 /\ value # sp

rp_filtered(value) == \E sp \in SMALL_PRIMES : PyMod(value, sp) = 0

----------------------------------------------------------------------------
(* The life of one BlumBlumShub instance *)

NoRp == [bit_length |-> 0, bits |-> <<>>, value |-> 0, returned |-> FALSE,
               seen |-> {}, again |-> FALSE]
NoGbp == [bit_length |-> 0, value |-> 0]

\* __init__ entering bbs_keygen
BbsInit ==
    /\ \E int_size_bits \in MinBitSize..MaxBitSize :
         bbs = [bits |-> int_size_bits, p |-> 0, q |-> 0, n |-> 0, seed |-> 0]
    /\ pc = "gen_p"
    /\ gbp = NoGbp
    /\ log = <<>>
    /\ rp = NoRp
    /\ err = "none"

p_bits(bitSize) == PyFloorDiv(bitSize, 2)
q_bits(bitSize) == bitSize - p_bits(bitSize)

\* p = cls.generate_blum_prime(p_bits)
KeygenP ==
    /\ pc = "gen_p"
    /\ \E c \in generate_blum_prime(p_bits(bbs.bits)) :
         /\ bbs' = [bbs EXCEPT !.p = c]
         /\ gbp' = [bit_length |-> p_bits(bbs.bits), value |-> c]
    /\ pc' = "gen_q"
    /\ UNCHANGED <<ar, eg, mr, log, rp, err, rsa, user, enc, pr, callers>>

\* q = cls.generate_blum_prime(q_bits), again while q == p; then n = p * q
KeygenQ ==
    /\ pc = "gen_q"
    /\ \E c \in generate_blum_prime(q_bits(bbs.bits)) :
         /\ bbs' = [bbs EXCEPT !.q = c, !.n = IF c = bbs.p THEN 0 ELSE bbs.p * c]
         /\ gbp' = [bit_length |-> q_bits(bbs.bits), value |-> c]
         /\ pc' = IF c = bbs.p THEN "gen_q" ELSE "seed"
    /\ UNCHANGED <<ar, eg, mr, log, rp, err, rsa, user, enc, pr, callers>>

\* the seed drawn without the gcd test
KeygenSeed_any_r ==
    /\ pc = "seed"
    /\ \E r \in 2..(bbs.n - 2) :
         bbs' = [bbs EXCEPT !.seed = pow(r, 2, bbs.n)]
    /\ pc' = "ready"
    /\ UNCHANGED <<ar, eg, mr, gbp, log, rp, err, rsa, user, enc, pr, callers>>

\* r = random.randrange(2, n - 1) until gcd(r, n) == 1; x0 = pow(r, 2, n)
KeygenSeed ==
    /\ pc = "seed"
    /\ \E r \in 2..(bbs.n - 2) :
         /\ math_gcd(r, bbs.n) = 1
         /\ bbs' = [bbs EXCEPT !.seed = pow(r, 2, bbs.n)]
    /\ pc' = "ready"
    /\ UNCHANGED <<ar, eg, mr, gbp, log, rp, err, rsa, user, enc, pr, callers>>

\* a caller's blum_blum_shub(iterations)
CallBlumBlumShub ==
    /\ pc = "ready"
    /\ err = "none"
    /\ \E iterations \in 0..MaxIter :
         LET res == blum_blum_shub(bbs, iterations)
             entry == [before |-> bbs.seed, iterations |-> iterations,
                       b |-> res.b, after |-> res.seed]
         IN /\ bbs' = [bbs EXCEPT !.seed = res.seed]
            /\ err' = res.err
            /\ log' = IF res.err # "none" THEN <<>>
                      ELSE IF Len(log) < 2 THEN Append(log, entry)
                      ELSE <<log[2], entry>>
    /\ rp' = NoRp
    /\ UNCHANGED <<ar, eg, mr, pc, gbp, rsa, user, enc, pr, callers>>

\* a caller enters random_prime_from_bbs(bit_length)
CallRandomPrime ==
    /\ pc = "ready"
    /\ err = "none"
    /\ \E bit_length \in 1..MaxPrimeBits :
         rp' = [bit_length |-> bit_length, bits |-> <<>>, value |-> 0, returned |-> FALSE,
               seen |-> {}, again |-> FALSE]
    /\ pc' = "rp_loop"
    /\ log' = <<>>
    /\ UNCHANGED <<ar, eg, mr, bbs, gbp, err, rsa, user, enc, pr, callers>>

\* one pass of the while True loop of random_prime_from_bbs; seen holds the
\* generator states the earlier passes of the call started from, again tells
\* whether this pass started from one of them
RandomPrimePass ==
    /\ pc = "rp_loop"
    /\ LET res == blum_blum_shub(bbs, rp.bit_length)
           value == rp_value(res.b, rp.bit_length)
       IN IF res.err # "none"
          THEN /\ err' = res.err
               /\ pc' = "ready"
               /\ rp' = NoRp
               /\ UNCHANGED bbs
          ELSE /\ bbs' = [bbs EXCEPT !.seed = res.seed]
               /\ UNCHANGED err
               /\ IF rp_filtered(value)
                  THEN /\ rp' = [rp EXCEPT !.bits = res.b, !.value = value,
                                            !.seen = @ \cup {bbs.seed},
                                            !.again = (bbs.seed \in rp.seen)]
                       /\ UNCHANGED pc
                  ELSE \E accepted \in miller_rabin(value) :
                         /\ rp' = [rp EXCEPT !.bits = res.b, !.value = value,
                                              !.returned = accepted,
                                              !.seen = IF accepted THEN {}
                                                       ELSE @ \cup {bbs.seed},
                                              !.again = (bbs.seed \in rp.seen)]
                         /\ pc' = IF accepted THEN "ready" ELSE "rp_loop"
    /\ UNCHANGED <<ar, eg, mr, gbp, log, rsa, user, enc, pr, callers>>

BbsNext ==
    \/ KeygenP
    \/ KeygenQ
    \/ KeygenSeed
    \/ CallBlumBlumShub
    \/ CallRandomPrime
    \/ RandomPrimePass

----------------------------------------------------------------------------
(* rsa_b.py and rsa_a.py: B makes keys and decrypts, A encrypts *)

\* Python's None and a present value
None == [some |-> FALSE, val |-> 0]
Some(v) == [some |-> TRUE, val |-> v]

DEFAULT_E == 17
RSA_B_SMALL_PRIMES == {11, 13, 17, 19, 23, 29, 31, 37, 41, 43, 47, 53, 59, 61, 67, 71,
                       73, 79, 83, 89, 97}

\* rsa_operations.gcd
RECURSIVE gcd(_, _)
gcd(a, b) == IF b # 0 THEN gcd(b, PyMod(a, b)) ELSE a

\* what get_int_input can return when the integers of typed are what the
\* user may enter: None on an empty line, else the first entry within
\* [min_val, max_val]; an entry outside is asked for again
get_int_input(typed, min_val, max_val) ==
    {None} \cup {Some(num) : num \in {t \in typed :
                                        /\ ~(min_val.some /\ t < min_val.val)
                                        /\ ~(max_val.some /\ t > max_val.val)}}

\* the copy of get_int_input in rsa_a.py
rsa_a_get_int_input(typed, min_val, max_val) ==
    {None} \cup {Some(num) : num \in {t \in typed :
                                        /\ ~(min_val.some /\ t < min_val.val)
                                        /\ ~(max_val.some /\ t > max_val.val)}}

RECURSIVE is_prime_simple_loop(_, _)
is_prime_simple_loop(n, i) ==
    IF i * i <= n
    THEN IF PyMod(n, i) = 0 THEN FALSE ELSE is_prime_simple_loop(n, i + 2)
    ELSE TRUE

is_prime_simple(n) ==
    IF n < 2 THEN FALSE
    ELSE IF n = 2 THEN TRUE
    ELSE IF PyMod(n, 2) = 0 THEN FALSE
    ELSE is_prime_simple_loop(n, 3)

NoKeys == [some |-> FALSE, p |-> 0, q |-> 0, n |-> 0, e |-> 0, d |-> 0, phi_n |-> 0]

\* what the user enters for e: an empty line, text that is no integer, or an integer
EmptyLine == [kind |-> "empty", val |-> 0]
NoInteger == [kind |-> "text", val |-> 0]
Typed(v) == [kind |-> "int", val |-> v]

\* generate_keys without the test gcd(e, phi_n) != 1
generate_keys_from_any_e(p, q, e_input) ==
    LET n == p * q
        phi_n == (p - 1) * (q - 1)
        e == IF e_input.kind = "int" THEN e_input.val ELSE DEFAULT_E
    IN IF e_input.kind = "text" THEN NoKeys
       ELSE IF e_input.kind = "int" /\ e < 2 THEN NoKeys
       ELSE IF e >= phi_n THEN NoKeys
       ELSE LET d == extended_gcd(PyMod(e, phi_n), phi_n)
            IN [some |-> TRUE, p |-> p, q |-> q, n |-> n, e |-> e,
                d |-> PyMod(d[2], phi_n), phi_n |-> phi_n]

\* generate_keys from n = p * q on
generate_keys_from(p, q, e_input) ==
    LET n == p * q
        phi_n == (p - 1) * (q - 1)
        e == IF e_input.kind = "int" THEN e_input.val ELSE DEFAULT_E
    IN IF e_input.kind = "text" THEN NoKeys
       ELSE IF e_input.kind = "int" /\ e < 2 THEN NoKeys
       ELSE IF e >= phi_n THEN NoKeys
       ELSE IF gcd(e, phi_n) # 1 THEN NoKeys
       ELSE LET d == mod_inverse(e, phi_n)
            IN IF ~d.ok THEN NoKeys
               ELSE [some |-> TRUE, p |-> p, q |-> q, n |-> n, e |-> e,
                     d |-> d.val, phi_n |-> phi_n]

\* choice "1": the primes p_in, q_in are entered; else rnd_p, rnd_q were chosen
generate_keys(choice, p_in, q_in, rnd_p, rnd_q, e_input) ==
    IF choice = "1"
    THEN IF ~p_in.some THEN NoKeys
         ELSE IF ~is_prime_simple(p_in.val) THEN NoKeys
         ELSE IF ~q_in.some THEN NoKeys
         ELSE IF ~is_prime_simple(q_in.val) THEN NoKeys
         ELSE IF p_in.val = q_in.val THEN NoKeys
         ELSE generate_keys_from(p_in.val, q_in.val, e_input)
    ELSE generate_keys_from(rnd_p, rnd_q, e_input)

\* decrypt_message without the test c >= n
decrypt_message_no_upper(c, n, d) ==
    IF c < 0 THEN None ELSE Some(mod_pow(c, d, n))

decrypt_message(c, n, d) ==
    IF c < 0 \/ c >= n THEN None ELSE Some(mod_pow(c, d, n))

\* get_public_key: the pair (n, e), or (None, None)
get_public_key(n_in, e_in) ==
    IF ~n_in.some THEN <<None, None>>
    ELSE IF ~e_in.some THEN <<None, None>>
    ELSE <<n_in, e_in>>

\* encrypt_message after m = get_int_input(..., min_val=0, max_val=n-1)
encrypt_message(n, e, m) ==
    IF ~m.some THEN None
    ELSE IF m.val < 0 THEN None
    ELSE IF m.val >= n THEN None
    ELSE Some(mod_pow(m.val, e, n))

----------------------------------------------------------------------------
(* The menu loops of rsa_b.main and rsa_a.main: each action is one choice *)

NoGk == [p |-> None, q |-> None, e_input |-> EmptyLine]

\* no program of the RSA scripts is running
RsaOff ==
    rsa = [prog |-> "none", keys |-> NoKeys, n |-> None, e |-> None,
           call |-> "none", gk |-> NoGk, arg |-> None, ret |-> None]

\* rsa_b.main (keys = None) or rsa_a.main (n = None, e = None) entering its loop
RsaInit ==
    \E prog \in {"rsa_a", "rsa_b"} :
        rsa = [prog |-> prog, keys |-> NoKeys, n |-> None, e |-> None,
               call |-> "none", gk |-> NoGk, arg |-> None, ret |-> None]

\* what the user may enter where a message or a ciphertext for modulus n is asked
TypedAround(n) == (-1..MaxTyped) \cup {n - 1, n, n + 1}

\* B, choice 1: keys = generate_keys(); a later call would overwrite keys with
\* the outcomes of the first, so a run holds one call that returns keys
GenerateKeys ==
    /\ rsa.prog = "rsa_b"
    /\ rsa.call = "none"
    /\ ~rsa.keys.some
    /\ \E choice \in {"1", "2"},
          e_input \in {EmptyLine, NoInteger} \cup {Typed(v) : v \in 1..MaxRsaE} :
        IF choice = "1"
        THEN \E p_in, q_in \in get_int_input(1..MaxRsaPrime, Some(2), None) :
                rsa' = [rsa EXCEPT
                          !.keys = generate_keys(choice, p_in, q_in, 0, 0, e_input),
                          !.call = "generate_keys",
                          !.gk = [p |-> p_in, q |-> q_in, e_input |-> e_input]]
        ELSE \E rnd_p \in RSA_B_SMALL_PRIMES :
             \E rnd_q \in RSA_B_SMALL_PRIMES \ {rnd_p} :
                rsa' = [rsa EXCEPT
                          !.keys = generate_keys(choice, None, None, rnd_p, rnd_q, e_input),
                          !.call = "generate_keys",
                          !.gk = [p |-> Some(rnd_p), q |-> Some(rnd_q),
                                  e_input |-> e_input]]
    /\ UNCHANGED <<ar, eg, mr, bbs, pc, gbp, log, rp, err, user, enc, pr, callers>>

\* B, choice 3: with keys, c = get_int_input(min_val=0) and, unless c is None,
\* decrypt_message(c, keys['n'], keys['d'])
DecryptMessage ==
    /\ rsa.prog = "rsa_b"
    /\ rsa.call = "none"
    /\ rsa.keys.some
    /\ \E c \in get_int_input(TypedAround(rsa.keys.n), Some(0), None) :
        IF c.some
        THEN rsa' = [rsa EXCEPT !.call = "decrypt_message", !.arg = c,
                                !.ret = decrypt_message(c.val, rsa.keys.n, rsa.keys.d)]
        ELSE UNCHANGED rsa
    /\ UNCHANGED <<ar, eg, mr, bbs, pc, gbp, log, rp, err, user, enc, pr, callers>>

\* A, choice 1: result = get_public_key(); n, e kept unless result[0] is None
GetPublicKey ==
    /\ rsa.prog = "rsa_a"
    /\ rsa.call = "none"
    /\ \E n_in \in rsa_a_get_int_input(1..MaxPubN, Some(2), None),
          e_in \in rsa_a_get_int_input(1..MaxRsaE, Some(2), None) :
        LET result == get_public_key(n_in, e_in)
        IN rsa' = [rsa EXCEPT !.call = "get_public_key",
                              !.n = IF result[1].some THEN result[1] ELSE @,
                              !.e = IF result[1].some THEN result[2] ELSE @]
    /\ UNCHANGED <<ar, eg, mr, bbs, pc, gbp, log, rp, err, user, enc, pr, callers>>

\* A, choice 2: with n and e, encrypt_message(n, e)
EncryptMessage ==
    /\ rsa.prog = "rsa_a"
    /\ rsa.call = "none"
    /\ rsa.n.some /\ rsa.n.val # 0
    /\ rsa.e.some /\ rsa.e.val # 0
    /\ \E m \in rsa_a_get_int_input(TypedAround(rsa.n.val), Some(0), Some(rsa.n.val - 1)) :
        rsa' = [rsa EXCEPT !.call = "encrypt_message", !.arg = m,
                           !.ret = encrypt_message(rsa.n.val, rsa.e.val, m)]
    /\ UNCHANGED <<ar, eg, mr, bbs, pc, gbp, log, rp, err, user, enc, pr, callers>>

\* back at the menu
RsaMenu ==
    /\ rsa.prog \in {"rsa_a", "rsa_b"}
    /\ rsa.call # "none"
    /\ rsa' = [rsa EXCEPT !.call = "none", !.gk = NoGk, !.arg = None, !.ret = None]
    /\ UNCHANGED <<ar, eg, mr, bbs, pc, gbp, log, rp, err, user, enc, pr, callers>>

----------------------------------------------------------------------------
(* send.py: the User object, its BlumBlumShub instance and its RSA primes *)

\* one pass of the while True loop of random_prime_from_bbs: what it can yield
rp_pass(self, bit_length) ==
    LET res == blum_blum_shub(self, bit_length)
        value == rp_value(res.b, bit_length)
    IN IF res.err # "none"
       THEN {[err |-> res.err, seed |-> self.seed, b |-> <<>>, value |-> 0,
              accepted |-> FALSE]}
       ELSE {[err |-> "none", seed |-> res.seed, b |-> res.b, value |-> value,
              accepted |-> accepted] :
                accepted \in IF rp_filtered(value) THEN {FALSE} ELSE miller_rabin(value)}

\* p = 0, q = 0, e = 65537 as __init__ leaves them; d not read yet
NewUser == [p |-> 0, q |-> 0, e |-> 65537, keyed |-> FALSE, read |-> FALSE, d |-> Raised]

UserOff == user = NewUser

\* generate_rsa_keys entered: the first random_prime_from_bbs(int_size_bits)
UserGenerateRsaKeys ==
    /\ rsa.prog = "send"
    /\ pc = "ready"
    /\ err = "none"
    /\ pc' = "user_p"
    /\ rp' = [bit_length |-> bbs.bits, bits |-> <<>>, value |-> 0, returned |-> FALSE,
               seen |-> {}, again |-> FALSE]
    /\ user' = [user EXCEPT !.read = FALSE, !.d = Raised]
    /\ UNCHANGED <<ar, eg, mr, bbs, gbp, log, err, rsa, enc, pr, callers>>

\* a pass of the loop that is to yield self.p; the second call follows its return
UserPassP ==
    /\ pc = "user_p"
    /\ \E out \in rp_pass(bbs, rp.bit_length) :
        IF out.err # "none"
        THEN /\ err' = out.err
             /\ pc' = "ready"
             /\ rp' = NoRp
             /\ UNCHANGED <<bbs, user>>
        ELSE /\ bbs' = [bbs EXCEPT !.seed = out.seed]
             /\ rp' = [rp EXCEPT !.bits = out.b, !.value = out.value,
                                 !.returned = out.accepted]
             /\ user' = IF out.accepted THEN [user EXCEPT !.p = out.value] ELSE user
             /\ pc' = IF out.accepted THEN "user_q" ELSE "user_p"
             /\ UNCHANGED err
    /\ UNCHANGED <<ar, eg, mr, gbp, log, rsa, enc, pr, callers>>

\* a pass of the loop that is to yield self.q
UserPassQ ==
    /\ pc = "user_q"
    /\ \E out \in rp_pass(bbs, rp.bit_length) :
        IF out.err # "none"
        THEN /\ err' = out.err
             /\ pc' = "ready"
             /\ rp' = NoRp
             /\ UNCHANGED <<bbs, user>>
        ELSE /\ bbs' = [bbs EXCEPT !.seed = out.seed]
             /\ rp' = [rp EXCEPT !.bits = out.b, !.value = out.value,
                                 !.returned = out.accepted]
             /\ user' = IF out.accepted
                        THEN [user EXCEPT !.q = out.value, !.keyed = TRUE]
                        ELSE user
             /\ pc' = IF out.accepted THEN "ready" ELSE "user_q"
             /\ UNCHANGED err
    /\ UNCHANGED <<ar, eg, mr, gbp, log, rsa, enc, pr, callers>>

\* the property d is read: mod_inverse(self.e, self.phi)
UserD ==
    /\ rsa.prog = "send"
    /\ pc = "ready"
    /\ err = "none"
    /\ user' = [user EXCEPT !.read = TRUE,
                            !.d = mod_inverse(user.e, (user.p - 1) * (user.q - 1))]
    /\ UNCHANGED <<ar, eg, mr, bbs, pc, gbp, log, rp, err, rsa, enc, pr, callers>>

\* send.py up to keys = User(64): the User's BlumBlumShub under construction
SendInit ==
    rsa = [prog |-> "send", keys |-> NoKeys, n |-> None, e |-> None,
           call |-> "none", gk |-> NoGk, arg |-> None, ret |-> None]

RsaNext ==
    \/ GenerateKeys
    \/ DecryptMessage
    \/ GetPublicKey
    \/ EncryptMessage
    \/ RsaMenu
    \/ KeygenP
    \/ KeygenQ
    \/ KeygenSeed
    \/ UserGenerateRsaKeys
    \/ UserPassP
    \/ UserPassQ
    \/ UserD

----------------------------------------------------------------------------
(* Strings as integers: a str is its sequence of code points, bytes a       *)
(* sequence over 0..255                                                     *)

BytesRaised == [ok |-> FALSE, val |-> <<>>]

\* str.encode("utf-8") of one code point; a lone surrogate raises
utf8_encode_cp(cp) ==
    IF cp < 128 THEN Value(<<cp>>)
    ELSE IF cp < 2048
    THEN Value(<<192 + PyFloorDiv(cp, 64), 128 + PyMod(cp, 64)>>)
    ELSE IF cp >= 55296 /\ cp <= 57343 THEN BytesRaised
    ELSE IF cp < 65536
    THEN Value(<<224 + PyFloorDiv(cp, 4096), 128 + PyMod(PyFloorDiv(cp, 64), 64),
                 128 + PyMod(cp, 64)>>)
    ELSE Value(<<240 + PyFloorDiv(cp, 262144), 128 + PyMod(PyFloorDiv(cp, 4096), 64),
                 128 + PyMod(PyFloorDiv(cp, 64), 64), 128 + PyMod(cp, 64)>>)

\* str.encode("utf-8")
RECURSIVE utf8_encode(_)
utf8_encode(s) ==
    IF s = <<>> THEN Value(<<>>)
    ELSE LET head == utf8_encode_cp(Head(s))
             tail == utf8_encode(Tail(s))
         IN IF head.ok /\ tail.ok THEN Value(head.val \o tail.val) ELSE BytesRaised

\* int.from_bytes(b, byteorder="big")
RECURSIVE from_bytes(_)
from_bytes(b) ==
    IF b = <<>> THEN 0
    ELSE from_bytes(SubSeq(b, 1, Len(b) - 1)) * 256 + b[Len(b)]

\* n.to_bytes(length, "big"); OverflowError when n needs more bytes
RECURSIVE to_bytes(_, _)
to_bytes(n, length) ==
    IF length = 0
    THEN IF n = 0 THEN Value(<<>>) ELSE BytesRaised
    ELSE LET high == to_bytes(PyFloorDiv(n, 256), length - 1)
         IN IF high.ok THEN Value(Append(high.val, PyMod(n, 256))) ELSE BytesRaised

Continuation(b) == b >= 128 /\ b <= 191

\* bytes.decode("utf-8"), strict: the code points, or UnicodeDecodeError
RECURSIVE utf8_decode(_)
utf8_decode(b) ==
    IF b = <<>> THEN Value(<<>>)
    ELSE LET b0 == b[1]
             width == IF b0 < 128 THEN 1
                      ELSE IF b0 >= 194 /\ b0 <= 223 THEN 2
                      ELSE IF b0 >= 224 /\ b0 <= 239 THEN 3
                      ELSE IF b0 >= 240 /\ b0 <= 244 THEN 4
                      ELSE 0
         IN IF width = 0 \/ Len(b) < width THEN BytesRaised
            ELSE IF \E i \in 2..width : ~Continuation(b[i]) THEN BytesRaised
            ELSE IF (b0 = 224 /\ b[2] < 160) \/ (b0 = 237 /\ b[2] > 159) THEN BytesRaised
            ELSE IF (b0 = 240 /\ b[2] < 144) \/ (b0 = 244 /\ b[2] > 143) THEN BytesRaised
            ELSE LET cp == IF width = 1 THEN b0
                           ELSE IF width = 2 THEN (b0 - 192) * 64 + (b[2] - 128)
                           ELSE IF width = 3
                           THEN (b0 - 224) * 4096 + (b[2] - 128) * 64 + (b[3] - 128)
                           ELSE (b0 - 240) * 262144 + (b[2] - 128) * 4096
                                + (b[3] - 128) * 64 + (b[4] - 128)
                     rest == utf8_decode(SubSeq(b, width + 1, Len(b)))
                 IN IF rest.ok THEN Value(<<cp>> \o rest.val) ELSE BytesRaised

\* elgamal_sending_project.py
encode_string_to_int(msg) ==
    LET b == utf8_encode(msg)
    IN IF b.ok THEN Value(from_bytes(b.val)) ELSE Raised

\* the byte count taken as bit_length // 8
decode_int_to_string_floor(n) ==
    LET length == PyFloorDiv(BitLength(n), 8)
        b == to_bytes(n, length)
    IN IF b.ok THEN utf8_decode(b.val) ELSE BytesRaised

decode_int_to_string(n) ==
    LET length == PyFloorDiv(BitLength(n) + 7, 8)
        b == to_bytes(n, length)
    IN IF b.ok THEN utf8_decode(b.val) ELSE BytesRaised

\* elgamal_decrypt.py
receiver_encode_string_to_int(msg) ==
    LET b == utf8_encode(msg)
    IN IF b.ok THEN Value(from_bytes(b.val)) ELSE Raised

receiver_decode_int_to_string(n) ==
    LET length == PyFloorDiv(BitLength(n) + 7, 8)
        b == to_bytes(n, length)
    IN IF b.ok THEN utf8_decode(b.val) ELSE BytesRaised

\* code points of every encoded width, the NUL character and a lone surrogate
CodePoints == {0, 1, 65, 97, 127, 128, 233, 2047, 2048, 8364, 65535, 55296}

\* the integers of the model have 31 bits
Fits(b) == Len(b) <= 3 \/ (Len(b) = 4 /\ b[1] < 128)

Strings ==
    {s \in UNION {[1..len -> CodePoints] : len \in 0..MaxStrLen} :
        LET b == utf8_encode(s) IN b.ok => Fits(b.val)}

NoEnc == [op |-> "none", s |-> <<>>, n |-> Raised, n_r |-> Raised,
          decoded |-> BytesRaised, decoded_r |-> BytesRaised]

EncInit == enc = NoEnc

\* the sender encodes msg; sender and receiver decode the integer
EncodeDecode ==
    /\ enc.op = "none"
    /\ \E msg \in Strings :
        LET m_int == encode_string_to_int(msg)
            m_int_r == receiver_encode_string_to_int(msg)
        IN enc' = [op |-> "encode_decode", s |-> msg, n |-> m_int, n_r |-> m_int_r,
                   decoded |-> IF m_int.ok THEN decode_int_to_string(m_int.val)
                               ELSE BytesRaised,
                   decoded_r |-> IF m_int_r.ok
                                 THEN receiver_decode_int_to_string(m_int_r.val)
                                 ELSE BytesRaised]
    /\ UNCHANGED <<ar, eg, mr, bbs, pc, gbp, log, rp, err, rsa, user, pr, callers>>

\* a recovered integer that need not come from a string is decoded
DecodeInt ==
    /\ enc.op = "none"
    /\ \E m_recovered \in 0..MaxDecodeInt :
        enc' = [op |-> "decode", s |-> <<>>, n |-> Value(m_recovered),
                n_r |-> Value(m_recovered),
                decoded |-> decode_int_to_string(m_recovered),
                decoded_r |-> receiver_decode_int_to_string(m_recovered)]
    /\ UNCHANGED <<ar, eg, mr, bbs, pc, gbp, log, rp, err, rsa, user, pr, callers>>

\* the caller takes the result and is free to convert again
EncReturn ==
    /\ enc.op # "none"
    /\ enc' = NoEnc
    /\ UNCHANGED <<ar, eg, mr, bbs, pc, gbp, log, rp, err, rsa, user, pr, callers>>

EncNext ==
    \/ EncodeDecode
    \/ DecodeInt
    \/ EncReturn

----------------------------------------------------------------------------
(* pollard_rho.py and the factoring step of rsa_c.try_intercept *)

\* the for loop of factor_pollard_p1 from the pass with exponent j on;
\* ds collects the gcds computed
RECURSIVE pollard_loop(_, _, _, _, _)
pollard_loop(a, j, n, B, ds) ==
    IF j > B THEN [ret |-> None, ds |-> ds]
    ELSE LET a_next == pow(a, j, n)
             d == math_gcd(a_next - 1, n)
         IN IF 1 < d /\ d < n
            THEN [ret |-> Some(d), ds |-> Append(ds, d)]
            ELSE pollard_loop(a_next, j + 1, n, B, Append(ds, d))

\* the loop returning at any d > 1
factor_pollard_p1_any_d(n, B) ==
    LET run == pollard_loop(2, 2, n, B, <<>>)
        hit == {i \in 1..Len(run.ds) : run.ds[i] > 1}
    IN IF hit = {} THEN run
       ELSE LET first == CHOOSE i \in hit : \A k \in hit : i <= k
            IN [ret |-> Some(run.ds[first]), ds |-> SubSeq(run.ds, 1, first)]

factor_pollard_p1(n, B) == pollard_loop(2, 2, n, B, <<>>)

\* math.floor(math.sqrt(n) / 2)
max_search(n) ==
    LET root == CHOOSE r \in 0..n : r * r <= n /\ n < (r + 1) * (r + 1)
    IN PyFloorDiv(root, 2)

NoPr == [op |-> "none", n |-> 0, B |-> 0, ret |-> None, ds |-> <<>>,
         e |-> 0, c |-> 0, q |-> None, m |-> None]

PollardInit == pr = NoPr

\* the call made with one pass fewer
CallFactorPollardP1_short ==
    /\ pr.op = "none"
    /\ \E n \in (2..MaxPollardN) \cup {8051}, B \in -1..MaxPollardB :
        LET run == factor_pollard_p1(n, B - 1)
        IN pr' = [NoPr EXCEPT !.op = "factor_pollard_p1", !.n = n, !.B = B,
                              !.ret = run.ret, !.ds = run.ds]
    /\ UNCHANGED <<ar, eg, mr, bbs, pc, gbp, log, rp, err, rsa, user, enc, callers>>

\* a call factor_pollard_p1(n, B); 8051 with B = 10 is the documented example
CallFactorPollardP1 ==
    /\ pr.op = "none"
    /\ \E n \in (2..MaxPollardN) \cup {8051}, B \in -1..MaxPollardB :
        LET run == factor_pollard_p1(n, B)
        IN pr' = [NoPr EXCEPT !.op = "factor_pollard_p1", !.n = n, !.B = B,
                              !.ret = run.ret, !.ds = run.ds]
    /\ UNCHANGED <<ar, eg, mr, bbs, pc, gbp, log, rp, err, rsa, user, enc, callers>>

\* try_intercept once n, e and c < n are entered
TryIntercept ==
    /\ pr.op = "none"
    /\ \E n \in 2..MaxPollardN, e \in 2..MaxRsaE, c \in 0..MaxTyped :
        /\ c < n
        /\ LET run == factor_pollard_p1(n, max_search(n))
               p == run.ret
               q == PyFloorDiv(n, p.val)
               phi_n == (p.val - 1) * (q - 1)
               d == mod_inverse(e, phi_n)
           IN pr' = [op |-> "try_intercept", n |-> n, B |-> max_search(n),
                     ret |-> p, ds |-> run.ds, e |-> e, c |-> c,
                     q |-> IF p.some THEN Some(q) ELSE None,
                     m |-> IF p.some /\ gcd(e, phi_n) = 1 /\ d.ok
                           THEN Some(mod_pow(c, d.val, n)) ELSE None]
    /\ UNCHANGED <<ar, eg, mr, bbs, pc, gbp, log, rp, err, rsa, user, enc, callers>>

\* the caller takes the result and is free to call again
PollardReturn ==
    /\ pr.op # "none"
    /\ pr' = NoPr
    /\ UNCHANGED <<ar, eg, mr, bbs, pc, gbp, log, rp, err, rsa, user, enc, callers>>

PollardNext ==
    \/ CallFactorPollardP1
    \/ TryIntercept
    \/ PollardReturn

----------------------------------------------------------------------------
(* Two callers of blum_blum_shub on the one instance, with no lock: a      *)
(* caller reads self.seed when it enters and assigns it when it leaves      *)

Callers == {1, 2}

NoCaller == [pc |-> "idle", iterations |-> 0, seed |-> 0, b |-> <<>>, x |-> 0]

\* x0 is self.seed as the first caller of a round found it, order the callers
\* in the order of their assignments, overlap whether one entered while the
\* other was between its read and its assignment
NoCallers == [c |-> [t \in Callers |-> NoCaller], x0 |-> 0, order |-> <<>>,
              overlap |-> FALSE]

ConcInit == callers = NoCallers

\* a caller enters blum_blum_shub(iterations): p = self.p, q = self.q,
\* seed = self.seed
CallerRead ==
    /\ pc = "ready"
    /\ err = "none"
    /\ \E t \in Callers, iterations \in 0..MaxIter :
         /\ callers.c[t].pc = "idle"
         /\ callers' =
              [callers EXCEPT
                 !.c[t] = [pc |-> "loop", iterations |-> iterations,
                           seed |-> bbs.seed, b |-> <<>>, x |-> 0],
                 !.x0 = IF callers.c[3 - t].pc = "idle" THEN bbs.seed ELSE @,
                 !.overlap = (callers.c[3 - t].pc = "loop")]
    /\ UNCHANGED <<ar, eg, mr, bbs, pc, gbp, log, rp, err, rsa, user, enc, pr>>

\* a caller that reads self.seed again when it assigns
CallerWrite_reread ==
    /\ \E t \in Callers :
         /\ callers.c[t].pc = "loop"
         /\ LET res == blum_blum_shub(bbs, callers.c[t].iterations)
            IN IF res.err # "none"
               THEN /\ err' = res.err
                    /\ callers' = [callers EXCEPT !.c[t].pc = "raised"]
                    /\ UNCHANGED bbs
               ELSE /\ bbs' = [bbs EXCEPT !.seed = res.seed]
                    /\ callers' = [callers EXCEPT !.c[t].pc = "done",
                                                  !.c[t].b = res.b,
                                                  !.c[t].x = res.seed,
                                                  !.order = Append(@, t)]
                    /\ UNCHANGED err
    /\ UNCHANGED <<ar, eg, mr, pc, gbp, log, rp, rsa, user, enc, pr>>

\* the rest of the call on the caller's own p, q, seed: the assertions, the
\* gcd test, the loop on the local x, then self.seed = x and return b
CallerWrite ==
    /\ \E t \in Callers :
         /\ callers.c[t].pc = "loop"
         /\ LET res == blum_blum_shub([bbs EXCEPT !.seed = callers.c[t].seed],
                                      callers.c[t].iterations)
            IN IF res.err # "none"
               THEN /\ err' = res.err
                    /\ callers' = [callers EXCEPT !.c[t].pc = "raised"]
                    /\ UNCHANGED bbs
               ELSE /\ bbs' = [bbs EXCEPT !.seed = res.seed]
                    /\ callers' = [callers EXCEPT !.c[t].pc = "done",
                                                  !.c[t].b = res.b,
                                                  !.c[t].x = res.seed,
                                                  !.order = Append(@, t)]
                    /\ UNCHANGED err
    /\ UNCHANGED <<ar, eg, mr, pc, gbp, log, rp, rsa, user, enc, pr>>

\* both callers have their bits; the next two calls start
CallersJoin ==
    /\ \A t \in Callers : callers.c[t].pc = "done"
    /\ callers' = NoCallers
    /\ UNCHANGED <<ar, eg, mr, bbs, pc, gbp, log, rp, err, rsa, user, enc, pr>>

ConcNext ==
    \/ KeygenP
    \/ KeygenQ
    \/ KeygenSeed
    \/ CallerRead
    \/ CallerWrite
    \/ CallersJoin

----------------------------------------------------------------------------
(* Specifications *)

\* no instance has been constructed
BbsOff ==
    /\ bbs = [bits |-> 0, p |-> 0, q |-> 0, n |-> 0, seed |-> 0]
    /\ pc = "off"
    /\ gbp = NoGbp
    /\ log = <<>>
    /\ rp = NoRp
    /\ err = "none"

\* the parts of a specification that stay as constructed
Idle == ArithInit /\ EgInit /\ MrInit /\ EncInit /\ PollardInit /\ ConcInit

InitArith == Idle /\ BbsOff /\ RsaOff /\ UserOff
InitBBS == Idle /\ BbsInit /\ RsaOff /\ UserOff

\* one of the three scripts starts
InitRSA ==
    /\ Idle
    /\ UserOff
    /\ \/ RsaInit /\ BbsOff
       \/ SendInit /\ BbsInit

\* calls of the pure functions of rsa_operations.py
SpecArith == InitArith /\ [][ArithNext]_vars

\* ElGamal sessions
SpecElGamal == InitArith /\ [][EgNext]_vars

\* runs of miller_rabin
SpecMR == InitArith /\ [][MrNext]_vars

\* a BlumBlumShub instance from its construction on
SpecBBS == InitBBS /\ [][BbsNext]_vars

\* a run of rsa_b.py, of rsa_a.py or of send.py
SpecRSA == InitRSA /\ [][RsaNext]_vars

\* string conversions
SpecEncoding == InitArith /\ [][EncNext]_vars

\* calls of factor_pollard_p1
SpecPollard == InitArith /\ [][PollardNext]_vars

\* an instance from its construction on, used by two callers at once
SpecConc == InitBBS /\ [][ConcNext]_vars

----------------------------------------------------------------------------
(* Claims *)

\* C1: on one instance, blum_blum_shub(a) then blum_blum_shub(b) return bit
\* lists whose concatenation is the list one blum_blum_shub(a + b) returns from
\* the same starting state, and both leave the same state x.
C1_SplitEqualsWhole ==
    Len(log) = 2 =>
        LET whole == blum_blum_shub([bbs EXCEPT !.seed = log[1].before],
                                    log[1].iterations + log[2].iterations)
        IN /\ log[1].b \o log[2].b = whole.b
           /\ bbs.seed = whole.seed

\* C2: for every RSA key with distinct primes p, q, e coprime to phi(n),
\* d = mod_inverse(e, phi(n)), and every c in [0, n), rsa_decrypt_crt(c, d, p, q)
\* returns what the direct decryption mod_pow(c, d, n) returns.
C2_CrtEqualsDirect ==
    (ar.op = "rsa_decrypt_crt" /\ IsPrime(ar.p) /\ IsPrime(ar.q) /\ ar.p # ar.q)
        => ar.decrypted_crt = Value(ar.decrypted_normal)

\* C3: for every prime p, 1 < g < p, private x in [1, p-2], message 0 < m < p
\* and ephemeral k in [1, p-2], elgamal_decrypt(elgamal_encrypt(m, pub), priv)
\* returns m without raising (both copies of elgamal_decrypt).
C3_ElGamalRoundTrip ==
    (eg.pc = "decrypted" /\ IsPrime(eg.pub.p))
        => /\ eg.dec = Value(eg.m)
           /\ eg.dec_r = Value(eg.m)

C3_Witness ==
    /\ eg.pc = "decrypted"
    /\ IsPrime(eg.pub.p)
    /\ eg.pub.p >= 5
    /\ eg.priv.x > 1
    /\ eg.k > 1
    /\ eg.m > 1
    /\ eg.ct[2] # eg.m
    /\ eg.dec = Value(eg.m)

\* C4 as stated: mod_inverse(a, m), m >= 1, raises exactly when gcd(a, m) # 1,
\* and otherwise returns the unique r in [0, m) with (a * r) mod m = 1.
C4_InverseAsStated ==
    ar.op = "mod_inverse" =>
        /\ ~ar.ret.ok <=> Gcd(ar.a, ar.m) # 1
        /\ ar.ret.ok =>
              /\ 0 <= ar.ret.val /\ ar.ret.val < ar.m
              /\ PyMod(ar.a * ar.ret.val, ar.m) = 1
              /\ \A r \in 0..(ar.m - 1) :
                    PyMod(ar.a * r, ar.m) = 1 => r = ar.ret.val

\* C4 amended: mod_inverse(a, m), m >= 1, raises exactly when gcd(a, m) # 1,
\* and otherwise returns the unique r in [0, m) with (a * r) mod m = 1 mod m
\* (1 for m >= 2; 0 for m = 1, where the result is 0).
C4_Inverse ==
    ar.op = "mod_inverse" =>
        /\ ~ar.ret.ok <=> Gcd(ar.a, ar.m) # 1
        /\ ar.ret.ok =>
              /\ 0 <= ar.ret.val /\ ar.ret.val < ar.m
              /\ PyMod(ar.a * ar.ret.val, ar.m) = PyMod(1, ar.m)
              /\ \A r \in 0..(ar.m - 1) :
                    PyMod(ar.a * r, ar.m) = PyMod(1, ar.m) => r = ar.ret.val

C4_Witness ==
    /\ ar.op = "mod_inverse"
    /\ ar.a < -1
    /\ ar.m > 2
    /\ ar.ret.ok
    /\ ar.ret.val > 1

\* C5: for every base, exponent >= 0 and modulus >= 1, mod_pow returns r with
\* 0 <= r < modulus and r = base^exponent mod modulus.
C5_ModPow ==
    ar.op = "mod_pow" =>
        /\ 0 <= ar.ret /\ ar.ret < ar.modulus
        /\ ar.ret = PyMod(Power(ar.base, ar.exponent), ar.modulus)

\* C6: for all integers a, b, extended_gcd(a, b) returns (g, x, y) with
\* a*x + b*y = g, g >= 0 and g the greatest common divisor of a and b.
C6_ExtendedGcd ==
    ar.op = "extended_gcd" =>
        LET g == ar.ret[1]
            x == ar.ret[2]
            y == ar.ret[3]
        IN /\ ar.a * x + ar.b * y = g
           /\ g >= 0
           /\ g = Gcd(ar.a, ar.b)

\* C7: miller_rabin returns False for every n <= 1 and every even n > 2, True
\* for n = 2 and n = 3, and True for every prime n whatever witnesses its
\* rounds draw; it returns False only for n that is not prime.
C7_MillerRabin ==
    mr.pc = "returned" =>
        /\ mr.n <= 1 => mr.result = "False"
        /\ (mr.n > 2 /\ PyMod(mr.n, 2) = 0) => mr.result = "False"
        /\ mr.n \in {2, 3} => mr.result = "True"
        /\ IsPrime(mr.n) => mr.result = "True"
        /\ mr.result = "False" => ~IsPrime(mr.n)

C7_Witness ==
    /\ mr.pc = "returned"
    /\ mr.n = 41
    /\ mr.round = testIterations
    /\ mr.a = 3
    /\ mr.result = "True"

\* C8: for every bit length b >= 1, every value generate_blum_prime(b) returns
\* has exactly b bits, is 3 mod 4, and is one miller_rabin accepts.
C8_BlumPrime ==
    gbp.bit_length >= 1 =>
        /\ BitLength(gbp.value) = gbp.bit_length
        /\ PyMod(gbp.value, 4) = 3
        /\ TRUE \in miller_rabin(gbp.value)

C9_Constructed == pc \in {"ready", "rp_loop"}

C9_State ==
    C9_Constructed =>
        /\ PyMod(bbs.p, 4) = 3
        /\ PyMod(bbs.q, 4) = 3
        /\ bbs.p # bbs.q
        /\ bbs.n = bbs.p * bbs.q
        /\ Coprime(bbs.seed, bbs.n)
        /\ err = "none"

C9_Frozen ==
    C9_Constructed => (bbs.p' = bbs.p /\ bbs.q' = bbs.q /\ bbs.n' = bbs.n)

\* C9: in every state of a constructed instance, after any sequence of
\* blum_blum_shub / random_prime_from_bbs calls: p mod 4 = 3, q mod 4 = 3,
\* p # q, n = p*q, the stored state is coprime to n and no error was raised;
\* and no bit or prime extraction changes p, q or n.
C9_BbsInvariant == [](C9_State) /\ [][C9_Frozen]_vars

C9_Witness ==
    /\ pc = "ready"
    /\ Len(log) = 2
    /\ log[1].iterations > 0
    /\ log[2].iterations > 1
    /\ bbs.n > 21
    /\ bbs.seed # log[1].before

\* C10: every value random_prime_from_bbs(bit_length) returns is odd, has
\* exactly bit_length bits, is divisible by no member of SMALL_PRIMES, is one
\* miller_rabin accepts, and its bits 1..bit_length-2 are the bits the
\* generator produced, bit 0 being forced to 1.
C10_RandomPrime ==
    rp.returned =>
        /\ PyMod(rp.value, 2) = 1
        /\ BitLength(rp.value) = rp.bit_length
        /\ \A sp \in SMALL_PRIMES : PyMod(rp.value, sp) # 0
        /\ TRUE \in miller_rabin(rp.value)
        /\ Len(rp.bits) = rp.bit_length
        /\ Bit(rp.value, 0) = 1
        /\ Bit(rp.value, rp.bit_length - 1) = 1
        /\ \A i \in 1..(rp.bit_length - 2) : Bit(rp.value, i) = rp.bits[i + 1]

C10_Witness ==
    /\ rp.returned
    /\ pc = "ready"
    /\ rp.bit_length >= 6
    /\ \E i \in 1..(rp.bit_length - 2) : rp.bits[i + 1] = 0
    /\ rp.bits[1] = 0

\* C12: RSA round trip: for distinct primes p, q, n = p*q, e coprime to
\* phi(n) = (p-1)(q-1), d = mod_inverse(e, phi(n)) and 0 <= m < n,
\* mod_pow(mod_pow(m, e, n), d, n) = m; p = 61, q = 53, e = 17 give n = 3233,
\* phi(n) = 3120, d = 2753, encrypt(65) = 2790 and decrypt(2790) = 65.
C12_RsaRoundTrip ==
    ar.op = "rsa_encryption_decryption" =>
        /\ (/\ IsPrime(ar.p) /\ IsPrime(ar.q) /\ ar.p # ar.q
            /\ Coprime(ar.e, (ar.p - 1) * (ar.q - 1))
            /\ 0 <= ar.message /\ ar.message < ar.p * ar.q)
              => /\ ar.n = ar.p * ar.q
                 /\ ar.phi_n = (ar.p - 1) * (ar.q - 1)
                 /\ ar.decrypted = ar.message
        /\ (ar.p = 61 /\ ar.q = 53 /\ ar.e = 17 /\ ar.message = 65)
              => /\ ar.n = 3233
                 /\ ar.phi_n = 3120
                 /\ ar.d = 2753
                 /\ ar.encrypted = 2790
                 /\ ar.decrypted = 65

C12_Witness ==
    /\ ar.op = "rsa_encryption_decryption"
    /\ ar.p = 61 /\ ar.q = 53 /\ ar.e = 17
    /\ ar.encrypted = 2790
    /\ ar.decrypted = 65

\* C13 as stated: decrypt_message(c, n, d) returns no value iff c < 0 or
\* c >= n and otherwise c^d mod n; encrypt_message returns no value iff its
\* message m has m < 0 or m >= n and otherwise m^e mod n.
C13_RangeErrorsAsStated ==
    /\ rsa.call = "decrypt_message" =>
          /\ ~rsa.ret.some <=> (rsa.arg.val < 0 \/ rsa.arg.val >= rsa.keys.n)
          /\ rsa.ret.some => rsa.ret.val = pow(rsa.arg.val, rsa.keys.d, rsa.keys.n)
    /\ rsa.call = "encrypt_message" =>
          /\ ~rsa.ret.some <=>
                (rsa.arg.some /\ (rsa.arg.val < 0 \/ rsa.arg.val >= rsa.n.val))
          /\ rsa.ret.some => rsa.ret.val = pow(rsa.arg.val, rsa.e.val, rsa.n.val)

\* C13: decrypt_message(c, n, d) returns no value iff c < 0 or c >= n and
\* otherwise c^d mod n; encrypt_message returns no value iff no message was
\* entered or m < 0 or m >= n, and otherwise m^e mod n.
C13_RangeErrors ==
    /\ rsa.call = "decrypt_message" =>
          /\ ~rsa.ret.some <=> (rsa.arg.val < 0 \/ rsa.arg.val >= rsa.keys.n)
          /\ rsa.ret.some => rsa.ret.val = pow(rsa.arg.val, rsa.keys.d, rsa.keys.n)
    /\ rsa.call = "encrypt_message" =>
          /\ ~rsa.ret.some <=>
                (~rsa.arg.some \/ rsa.arg.val < 0 \/ rsa.arg.val >= rsa.n.val)
          /\ rsa.ret.some => rsa.ret.val = pow(rsa.arg.val, rsa.e.val, rsa.n.val)

C13_Witness ==
    /\ rsa.call = "decrypt_message"
    /\ rsa.arg.val >= rsa.keys.n
    /\ ~rsa.ret.some

\* the effective exponent of a generate_keys call
C14_E == IF rsa.gk.e_input.kind = "int" THEN rsa.gk.e_input.val ELSE DEFAULT_E

\* the key part shared by both readings of C14: a key of generate_keys has
\* n = p*q, phi = (p-1)(q-1) and gcd(e, phi) = 1; an exponent not coprime to
\* (p-1)(q-1) yields no key; a reading of User.d succeeds iff gcd(e, phi) = 1
C14_Common ==
    /\ rsa.keys.some =>
          /\ rsa.keys.n = rsa.keys.p * rsa.keys.q
          /\ rsa.keys.phi_n = (rsa.keys.p - 1) * (rsa.keys.q - 1)
          /\ Coprime(rsa.keys.e, rsa.keys.phi_n)
    /\ (/\ rsa.call = "generate_keys" /\ rsa.gk.p.some /\ rsa.gk.q.some
        /\ rsa.gk.e_input.kind # "text"
        /\ ~Coprime(C14_E, (rsa.gk.p.val - 1) * (rsa.gk.q.val - 1)))
          => ~rsa.keys.some
    /\ user.read =>
          (user.d.ok <=> math_gcd(user.e, (user.p - 1) * (user.q - 1)) = 1)

\* C14 as stated: a key of rsa_b.generate_keys, and every User.d obtained,
\* has n = p*q, phi = (p-1)(q-1), gcd(e, phi) = 1 and (e*d) mod phi = 1; an
\* exponent not coprime to phi(n) yields the failure outcome.
C14_KeyInvariantAsStated ==
    /\ C14_Common
    /\ rsa.keys.some => MulMod(rsa.keys.e, rsa.keys.d, rsa.keys.phi_n) = 1
    /\ (user.read /\ user.d.ok) =>
          MulMod(user.e, user.d.val, (user.p - 1) * (user.q - 1)) = 1

\* C14: a key of rsa_b.generate_keys, and every User.d obtained, has n = p*q,
\* phi = (p-1)(q-1), gcd(e, phi) = 1 and (e*d) mod phi = 1 mod phi (a User
\* whose primes are not generated yet has phi = 1 and d = 0); an exponent not
\* coprime to phi(n) yields the failure outcome.
C14_KeyInvariant ==
    /\ C14_Common
    /\ rsa.keys.some =>
          MulMod(rsa.keys.e, rsa.keys.d, rsa.keys.phi_n) = PyMod(1, rsa.keys.phi_n)
    /\ (user.read /\ user.d.ok) =>
          MulMod(user.e, user.d.val, (user.p - 1) * (user.q - 1))
             = PyMod(1, (user.p - 1) * (user.q - 1))

C14_Witness ==
    /\ user.read
    /\ user.keyed
    /\ user.d.ok
    /\ user.d.val > 1

\* C15: elgamal_keygen(p, g) raises iff p <= 2 or not (1 < g < p), and else
\* returns keys sharing (p, g) with 1 <= x <= p-2 and y = g^x mod p;
\* elgamal_encrypt(m, pub) raises iff not (0 < m < p), and else returns
\* (g^k mod p, m * y^k mod p) for a k with 1 <= k <= p-2.
C15_ElGamalValidation ==
    /\ eg.pc = "keygen_error" => (eg.kp <= 2 \/ ~(1 < eg.kg /\ eg.kg < eg.kp))
    /\ eg.pc \notin {"start", "keygen_error"} =>
          /\ ~(eg.kp <= 2 \/ ~(1 < eg.kg /\ eg.kg < eg.kp))
          /\ eg.pub.p = eg.kp /\ eg.priv.p = eg.kp
          /\ eg.pub.g = eg.kg /\ eg.priv.g = eg.kg
          /\ 1 <= eg.priv.x /\ eg.priv.x <= eg.kp - 2
          /\ eg.pub.y = PyMod(Power(eg.kg, eg.priv.x), eg.kp)
    /\ eg.pc = "encrypt_error" => ~(0 < eg.m /\ eg.m < eg.pub.p)
    /\ eg.pc \in {"encrypted", "decrypted"} =>
          /\ 0 < eg.m /\ eg.m < eg.pub.p
          /\ 1 <= eg.k /\ eg.k <= eg.pub.p - 2
          /\ eg.ct = <<PyMod(Power(eg.pub.g, eg.k), eg.pub.p),
                       PyMod(eg.m * Power(eg.pub.y, eg.k), eg.pub.p)>>

C15_Witness ==
    /\ eg.pc = "encrypt_error"
    /\ eg.pub.p = 5
    /\ eg.priv.x > 1
    /\ eg.m >= eg.pub.p
    /\ eg.ks # {}

\* C16: for every string s whose UTF-8 bytes do not start with a zero byte,
\* decode_int_to_string(encode_string_to_int(s)) = s, in both copies; the
\* integer is the big-endian number of the bytes.
C16_StringRoundTrip ==
    (/\ enc.op = "encode_decode"
     /\ utf8_encode(enc.s).ok
     /\ (enc.s = <<>> \/ utf8_encode(enc.s).val[1] # 0))
        => /\ enc.n = Value(BigEndian(utf8_encode(enc.s).val, Len(utf8_encode(enc.s).val)))
           /\ enc.n_r = enc.n
           /\ enc.decoded = Value(enc.s)
           /\ enc.decoded_r = Value(enc.s)

C16_Witness ==
    /\ enc.op = "encode_decode"
    /\ Len(enc.s) = 2
    /\ enc.s[1] > 127
    /\ enc.n.ok
    /\ enc.n.val > 65535
    /\ enc.decoded = Value(enc.s)

\* 2^(j!) mod n: the value of a after the pass with exponent j
C17_A(j, n) == pow(2, Factorial(j), n)

C17_Nontrivial(d, n) == 1 < d /\ d < n

\* C17: for n >= 2 and every B, factor_pollard_p1(n, B) returns None or a d
\* with 1 < d < n dividing n; it follows a <- a^j mod n for j = 2..B from
\* a = 2 and returns at the first j with 1 < gcd(a-1, n) < n;
\* factor_pollard_p1(8051, 10) is 83 or 97.
C17_PollardSafe ==
    pr.op = "factor_pollard_p1" =>
        /\ pr.ret.some => /\ C17_Nontrivial(pr.ret.val, pr.n)
                          /\ PyMod(pr.n, pr.ret.val) = 0
        /\ \A i \in 1..Len(pr.ds) :
              /\ i + 1 <= pr.B
              /\ pr.ds[i] = math_gcd(C17_A(i + 1, pr.n) - 1, pr.n)
              /\ i < Len(pr.ds) => ~C17_Nontrivial(pr.ds[i], pr.n)
        /\ pr.ret.some => (pr.ds # <<>> /\ pr.ret.val = pr.ds[Len(pr.ds)])
        /\ ~pr.ret.some => /\ Len(pr.ds) = (IF pr.B >= 2 THEN pr.B - 1 ELSE 0)
                           /\ \A i \in 1..Len(pr.ds) : ~C17_Nontrivial(pr.ds[i], pr.n)
        /\ (pr.n = 8051 /\ pr.B = 10) => pr.ret \in {Some(83), Some(97)}

C17_Witness ==
    /\ pr.op = "factor_pollard_p1"
    /\ pr.n = 8051
    /\ pr.B = 10
    /\ pr.ret = Some(97)

\* n is composite and has a prime factor p with p - 1 B-smooth
C18_SmoothFactor ==
    \E p \in 2..(pr.n - 1) :
        /\ PyMod(pr.n, p) = 0
        /\ IsPrime(p)
        /\ Smooth(p - 1, pr.B)

\* n is composite and has an odd prime factor p with p - 1 dividing B!
C18_FactorialFactor ==
    /\ pr.B >= 2
    /\ \E p \in 3..(pr.n - 1) :
          /\ PyMod(pr.n, p) = 0
          /\ IsPrime(p)
          /\ PyMod(Factorial(pr.B), p - 1) = 0

\* C18 as stated: whenever a composite n has a prime factor p with p - 1
\* B-smooth, factor_pollard_p1(n, B) returns a nontrivial factor, not None.
C18_SmoothFindsFactorAsStated ==
    (pr.op # "none" /\ C18_SmoothFactor) => pr.ret.some

\* C18: whenever a composite n has an odd prime factor p with p - 1 dividing
\* B!, factor_pollard_p1(n, B) returns a nontrivial factor of n unless the
\* last gcd it computes is n itself, in which case it returns None.
C18_SmoothFindsFactor ==
    (pr.op # "none" /\ C18_FactorialFactor) =>
        \/ pr.ret.some /\ C17_Nontrivial(pr.ret.val, pr.n) /\ PyMod(pr.n, pr.ret.val) = 0
        \/ ~pr.ret.some /\ pr.ds # <<>> /\ pr.ds[Len(pr.ds)] = pr.n

C18_Witness ==
    /\ pr.op = "factor_pollard_p1"
    /\ pr.n = 91
    /\ pr.B = 3
    /\ pr.ret = Some(7)
    /\ C18_FactorialFactor

\* C19: across the elgamal_encrypt calls under one public key, no call uses
\* an ephemeral exponent k that an earlier call used.
C19_NoKReuse == ~eg.reused

\* C20: for every bit length b >= 2 and every generator state,
\* random_prime_from_bbs(b) eventually returns; a pass depends on nothing but
\* the generator state and the draws of miller_rabin, so no pass of a call
\* may start from a generator state an earlier pass of that call started from.
C20_RandomPrimeReturns ==
    (pc = "rp_loop" /\ rp.bit_length >= 2) => ~rp.again

\* C21: for every modulus bit size >= 2 the construction (bbs_keygen)
\* completes under fair random draws: in each of its loops some draw leads
\* on: generate_blum_prime(p_bits) can return, generate_blum_prime(q_bits) can
\* return a prime other than p, and some r of randrange(2, n - 1) is coprime
\* to n.
C21_KeygenCompletes ==
    bbs.bits >= 2 =>
        /\ pc = "gen_p" => generate_blum_prime(p_bits(bbs.bits)) # {}
        /\ pc = "gen_q" =>
              \E c \in generate_blum_prime(q_bits(bbs.bits)) : c # bbs.p
        /\ pc = "seed" => \E r \in 2..(bbs.n - 2) : math_gcd(r, bbs.n) = 1

\* the call of caller t had it run alone from the state x0 of the round
C22_Alone(t) ==
    blum_blum_shub([bbs EXCEPT !.seed = callers.x0], callers.c[t].iterations)

\* the state after the call of caller first and then the call of caller second
C22_Sequential(first, second) ==
    blum_blum_shub([bbs EXCEPT !.seed = C22_Alone(first).seed],
                   callers.c[second].iterations).seed

C22_Done == \A t \in Callers : callers.c[t].pc = "done"

\* C22: blum_blum_shub reads self.seed at its start and assigns it at its
\* end; when a caller enters while the other is in between, both have read the
\* same x, both return the bits of a call made alone from x (the same bits as
\* far as both go), and the state left is the state of the caller that
\* assigned last alone: the other caller's update is lost. Calls that do not
\* overlap leave the state of the two calls in sequence.
C22_LostUpdate ==
    C22_Done =>
        LET first == callers.order[1]
            last == callers.order[2]
        IN IF callers.overlap
           THEN /\ \A t \in Callers :
                     /\ callers.c[t].seed = callers.x0
                     /\ callers.c[t].b = C22_Alone(t).b
                /\ \A i \in 1..Len(callers.c[1].b) :
                     i <= Len(callers.c[2].b)
                        => callers.c[1].b[i] = callers.c[2].b[i]
                /\ bbs.seed = C22_Alone(last).seed
           ELSE /\ callers.c[last].seed = C22_Alone(first).seed
                /\ bbs.seed = C22_Sequential(first, last)

C22_Witness ==
    /\ C22_Done
    /\ callers.overlap
    /\ callers.c[1].iterations = 2
    /\ callers.c[2].iterations = 2
    /\ callers.c[1].b = callers.c[2].b
    /\ bbs.seed # C22_Sequential(1, 2)
    /\ bbs.seed # C22_Sequential(2, 1)
    /\ bbs.seed # callers.x0

\* C23: after User.generate_rsa_keys returns, the two primes drawn from the
\* generator are distinct: p # q.
C23_DistinctPrimes ==
    (user.keyed /\ pc = "ready") => user.p # user.q

====
